---- MODULE Spec2Model ----
(***************************************************************************)
(* Model of the bugsnag Go client: Client configuration, Event             *)
(* construction with stack-trace capture, metadata enrichment, Notify and  *)
(* send, and the CapturePanic helper.                                      *)
(*                                                                         *)
(* The package exists in two variants. The model follows the one built on  *)
(* the Client struct (integer line numbers, DefaultClient); bugsnag.go is  *)
(* the earlier variant of the same functions over package-level variables. *)
(*                                                                         *)
(* Go strings that the code inspects (qualified function names, file       *)
(* paths) are sequences of tokens; Go maps are heap objects referred to by *)
(* id, because WithMetaDataValues stores the caller's map itself.          *)
(***************************************************************************)
EXTENDS Integers, Sequences, FiniteSets, TLC

(* ---- bounds of the model ---- *)
MaxEvents == 2      \* Events that live on the heap at once
MaxFrames == 2      \* caller frames below the entry point on a call stack
MaxStages == 2      \* length of a NotifyReleaseStages list

VARIABLES
    clients,          \* ClientIds -> Client struct
    TraceFilterFunc,  \* the package-level hook (a hook name, or NilFunc)
    events,           \* heap of Events: 0..MaxEvents -> Event struct
    maps,             \* heap of metadata maps: MapIds -> [Keys -> value]
    written,          \* history: what the enrichment calls wrote, by value
    call,             \* the last operation, its result and the POSTs it issued
    unwinding         \* the goroutine that defers CapturePanic

vars == <<clients, TraceFilterFunc, events, maps, written, call, unwinding>>

(* ======================= domains ======================= *)

ClientIds == {"DefaultClient", "c2"}
Stages    == {"production", "staging"}
APIKeys   == {"", "K"}
Hostnames == {"", "web1"}
StageLists == UNION {[1..n -> Stages] : n \in 0..MaxStages}

bugsnagURL == "notify.bugsnag.com"

\* The Notifier every Client of the model points to.
DefaultNotifier ==
    [Name |-> "Bugsnag Go", Version |-> "0.1",
     URL |-> "https://github.com/Mistobaan/bugsnag"]

Range(s) == {s[i] : i \in DOMAIN s}

\* The Client fields the operations read.
DefaultClientInit(key, host) ==
    [APIKey |-> key,
     ReleaseStage |-> "production",
     NotifyReleaseStages |-> <<"production">>,
     UseSSL |-> TRUE,
     Url |-> bugsnagURL,
     Hostname |-> host,
     Notifier |-> DefaultNotifier]

(* ---- strings as token sequences ---- *)
centerDot == "·"
dot       == "."
dunno     == "???"
slash     == "/"

\* strings.Index: position of the first occurrence, 0 when there is none
\* (Go: -1, positions from 0).
Index(name, tok) ==
    IF \E i \in 1..Len(name) : name[i] = tok
    THEN CHOOSE i \in 1..Len(name) :
            name[i] = tok /\ \A j \in 1..(i - 1) : name[j] # tok
    ELSE 0

\* strings.Replace(name, old, new, -1) for one-token old and new.
Replace(name, old, new) ==
    [i \in 1..Len(name) |-> IF name[i] = old THEN new ELSE name[i]]

\* strings.Contains(file, "go/src/pkg/") on a path given as its segments.
ContainsPkgRoot(file) ==
    \E i \in 1..Len(file) :
        /\ i + 3 <= Len(file)
        /\ file[i] = "go" /\ file[i + 1] = "src" /\ file[i + 2] = "pkg"

(* ---- call stacks ---- *)
\* A frame as runtime.Caller and runtime.FuncForPC report it.
Frame(known, name, file, line) ==
    [known |-> known, name |-> name, file |-> file, line |-> line]

UserFile   == <<"home", "app", "main.go">>
StdlibFile == <<"usr", "go", "src", "pkg", "runtime", "panic.c">>
LibFile    == <<"gopath", "src", "bugsnag", "bugsnag.go">>

LibPath == <<"github", dot, "com", slash, "Mistobaan", slash, "bugsnag">>

FrStacktrace == Frame(TRUE, LibPath \o <<dot, "stacktrace">>, LibFile, 301)
FrClientNew  == Frame(TRUE, LibPath \o <<dot, "(*Client)", dot, "New">>, LibFile, 191)
FrNew        == Frame(TRUE, LibPath \o <<dot, "New">>, LibFile, 256)
FrNotifyError == Frame(TRUE, LibPath \o <<dot, "NotifyError">>, LibFile, 261)
FrNotifyRequestError ==
    Frame(TRUE, LibPath \o <<dot, "NotifyRequestError">>, LibFile, 273)
FrCapturePanic == Frame(TRUE, LibPath \o <<dot, "CapturePanic">>, LibFile, 329)

FrMain      == Frame(TRUE, <<"main", dot, "handler">>, UserFile, 10)
FrMethod    == Frame(TRUE, <<"main", dot, "T", centerDot, "serve">>, UserFile, 20)
FrRtPanic   == Frame(TRUE, <<"runtime", dot, "panic">>, StdlibFile, 30)
FrVendPanic == Frame(TRUE, <<"gopkg", dot, "in", slash, "chk", dot, "panic">>, UserFile, 40)
FrUnknown   == Frame(FALSE, <<>>, UserFile, 50)

UserFrames == {FrMain, FrMethod, FrRtPanic, FrVendPanic, FrUnknown}
UserStacks == UNION {[1..n -> UserFrames] : n \in 0..MaxFrames}

\* function returns, if possible, the name of the function containing the PC.
function(pc) ==
    IF ~pc.known
    THEN <<dunno>>
    ELSE LET name   == pc.name
             period == Index(name, dot)
             short  == IF period > 0
                       THEN SubSeq(name, period + 1, Len(name))
                       ELSE name
         IN  Replace(short, centerDot, dot)

TraceLine(fr) ==
    [File |-> fr.file,
     LineNumber |-> fr.line,
     Method |-> function(fr),
     InProject |-> ~ContainsPkgRoot(fr.file)]

\* The hooks a caller may install in TraceFilterFunc.
NilFunc == "nil"
Hooks   == {"prefixFile", "dropAll", "renameMethod"}

ApplyHook(hook, trace) ==
    CASE hook = "prefixFile" ->
            [i \in 1..Len(trace) |->
                [trace[i] EXCEPT !.File = <<"this is not a string">> \o @]]
      [] hook = "dropAll" -> <<>>
      [] hook = "renameMethod" ->
            [i \in 1..Len(trace) |-> [trace[i] EXCEPT !.Method = <<"panic">>]]
      [] OTHER -> trace

RECURSIVE WalkFrames(_, _)
\* The loop of stacktrace: runtime.Caller(i) is stack[i + 1].
WalkFrames(i, stack) ==
    IF i + 1 > Len(stack)
    THEN <<>>
    ELSE LET fr == stack[i + 1]
         IN  IF function(fr) # <<"panic">>
             THEN <<TraceLine(fr)>> \o WalkFrames(i + 1, stack)
             ELSE WalkFrames(i + 1, stack)

stacktrace(skip, stack, hook) ==
    LET trace == WalkFrames(skip, stack)
    IN  IF hook # NilFunc THEN ApplyHook(hook, trace) ELSE trace

(* ======================= the heap ======================= *)

EventIds    == 1..MaxEvents
Scratch     == 0            \* the Event of a helper that never hands it out
AllEventIds == 0..MaxEvents

Tabs == {"host", "request", "user_info"}
Keys == {"name", "dump", "id"}

Absent      == "<absent>"
RequestDump == "<*http.Request>"   \* the inbound request stored as a value
ChanValue   == "<chan>"            \* a value encoding/json cannot encode
RequestURL  == "some URL"

CallerMapNames == {"m1"}
CallerMaps == {<<0 - 1, n>> : n \in CallerMapNames}
NilMap     == <<0 - 1, "nil">>
OwnMap(e, tab) == <<e, tab>>
MapIds     == CallerMaps \cup {OwnMap(e, t) : e \in AllEventIds, t \in Tabs}

EmptyMap == [k \in Keys |-> Absent]

NoMetaData == [t \in Tabs |-> NilMap]

NoEvent ==
    [live |-> FALSE, ReleaseStage |-> "", Context |-> "", ErrorClass |-> "",
     Message |-> "", Stacktrace |-> <<>>, MetaData |-> NoMetaData]

Heap(ev, mp, wr) == [events |-> ev, maps |-> mp, written |-> wr]

\* The key/value pairs of a tab of an Event (a nil map reads as empty).
TabContent(h, e, tab) ==
    IF h.events[e].MetaData[tab] = NilMap
    THEN EmptyMap
    ELSE h.maps[h.events[e].MetaData[tab]]

\* A map the Event made itself is unreachable once the tab refers to another
\* map: it is collected (kept empty, so that equal heaps are equal states).
Collect(mp, e, tab, ref) ==
    IF ref = OwnMap(e, tab) THEN mp ELSE [mp EXCEPT ![OwnMap(e, tab)] = EmptyMap]

(* ---- Client.New ---- *)
\* err: [class, msg]; stack: the call stack as runtime.Caller sees it
\* inside stacktrace (stack[1] is stacktrace itself).
NewEvent(cl, err, stack, hook) ==
    [live |-> TRUE,
     ReleaseStage |-> cl.ReleaseStage,
     Context |-> "",
     ErrorClass |-> err.class,
     Message |-> err.msg,
     Stacktrace |-> stacktrace(3, stack, hook),
     MetaData |-> NoMetaData]

ClientNew(h, e, cl, err, stack, hook) ==
    [h EXCEPT !.events[e] = NewEvent(cl, err, stack, hook),
              !.written[e] = [t \in Tabs |-> EmptyMap]]

(* ---- enrichment ---- *)
WithContext(h, e, context) ==
    [h EXCEPT !.events[e].Context = context]

\* values: a map id (the caller's map, or NilMap); the tab refers to that map.
WithMetaDataValues(h, e, tab, values) ==
    [h EXCEPT !.events[e].MetaData[tab] = values,
              !.maps = Collect(@, e, tab, values),
              !.written[e][tab] =
                    IF values = NilMap THEN EmptyMap ELSE h.maps[values]]

WithMetaData(h, e, tab, name, value) ==
    LET ref == IF h.events[e].MetaData[tab] = NilMap
               THEN OwnMap(e, tab)
               ELSE h.events[e].MetaData[tab]
    IN  [h EXCEPT !.events[e].MetaData[tab] = ref,
                  !.maps[ref][name] = value,
                  !.written[e][tab][name] = value]

(* ---- encode and send ---- *)
Nil == [kind |-> "nil", code |-> 0]
NoApiKeyError   == [kind |-> "No Api Key Provided", code |-> 0]
EncodeError     == [kind |-> "json: unsupported type", code |-> 0]
TransportError  == [kind |-> "transport", code |-> 0]
StatusError(code) == [kind |-> "Unexpected status code", code |-> code]

StatusCodes == {200, 204, 500}
\* What http.Post gives back: a transport error, or a response with a status.
Responses == {[err |-> TRUE, status |-> 0]} \cup
             {[err |-> FALSE, status |-> s] : s \in StatusCodes}

\* The metadata values of an Event, as json.Marshal walks them.
MetaValues(h, e) ==
    {TabContent(h, e, t)[k] : t \in Tabs, k \in Keys} \ {Absent}

\* encode: json.Marshal fails on a value it has no encoding for; whether it
\* can encode the *http.Request depends on the fields of that struct in the
\* Go release in use (dumpOK).
encode(h, e, dumpOK) ==
    IF ChanValue \in MetaValues(h, e) THEN "error"
    ELSE IF RequestDump \in MetaValues(h, e) /\ ~dumpOK THEN "error"
    ELSE "ok"

\* The request http.Post issues: the URL and the Payload in its body.
Post(h, cl, e, resp) ==
    [scheme |-> IF cl.UseSSL THEN "https://" ELSE "http://",
     host |-> cl.Url,
     apiKey |-> cl.APIKey,
     notifier |-> cl.Notifier,
     event |-> h.events[e],
     metaData |-> [t \in Tabs |-> TabContent(h, e, t)],
     resp |-> resp]

Sent(ret, posts) == [ret |-> ret, posts |-> posts]

sendKeyCheckLast(h, cl, e, dumpOK, resp) ==
    IF encode(h, e, dumpOK) = "error" THEN Sent(EncodeError, <<>>)
    ELSE IF cl.APIKey = "" THEN Sent(NoApiKeyError, <<>>)
    ELSE IF resp.err THEN Sent(TransportError, <<Post(h, cl, e, resp)>>)
    ELSE IF resp.status # 200
         THEN Sent(StatusError(resp.status), <<Post(h, cl, e, resp)>>)
    ELSE Sent(Nil, <<Post(h, cl, e, resp)>>)

sendAny2xx(h, cl, e, dumpOK, resp) ==
    IF cl.APIKey = "" THEN Sent(NoApiKeyError, <<>>)
    ELSE IF encode(h, e, dumpOK) = "error" THEN Sent(EncodeError, <<>>)
    ELSE IF resp.err THEN Sent(TransportError, <<Post(h, cl, e, resp)>>)
    ELSE IF resp.status >= 300
         THEN Sent(StatusError(resp.status), <<Post(h, cl, e, resp)>>)
    ELSE Sent(Nil, <<Post(h, cl, e, resp)>>)

\* Client.send for the one-Event list Notify passes.
send(h, cl, e, dumpOK, resp) ==
    IF cl.APIKey = "" THEN Sent(NoApiKeyError, <<>>)
    ELSE IF encode(h, e, dumpOK) = "error" THEN Sent(EncodeError, <<>>)
    ELSE IF resp.err THEN Sent(TransportError, <<Post(h, cl, e, resp)>>)
    ELSE IF resp.status # 200
         THEN Sent(StatusError(resp.status), <<Post(h, cl, e, resp)>>)
    ELSE Sent(Nil, <<Post(h, cl, e, resp)>>)

(* ---- Client.Notify ---- *)
Outcome(h, ret, posts) == [h |-> h, ret |-> ret, posts |-> posts]

\* The host-name injection of Notify.
InjectHost(h, cl, e) ==
    IF cl.Hostname # "" THEN WithMetaData(h, e, "host", "name", cl.Hostname) ELSE h

RECURSIVE NotifyEveryMatch(_, _, _, _, _, _)
NotifyEveryMatch(h, cl, e, dumpOK, resp, i) ==
    IF i > Len(cl.NotifyReleaseStages)
    THEN Outcome(h, Nil, <<>>)
    ELSE IF cl.NotifyReleaseStages[i] = h.events[e].ReleaseStage
    THEN LET h2   == InjectHost(h, cl, e)
             s    == send(h2, cl, e, dumpOK, resp)
             rest == NotifyEveryMatch(h2, cl, e, dumpOK, resp, i + 1)
         IN  Outcome(rest.h, s.ret, s.posts \o rest.posts)
    ELSE NotifyEveryMatch(h, cl, e, dumpOK, resp, i + 1)

NotifyNoStageCheck(h, cl, e, dumpOK, resp, i) ==
    LET h2 == InjectHost(h, cl, e)
        s  == send(h2, cl, e, dumpOK, resp)
    IN  Outcome(h2, s.ret, s.posts)

RECURSIVE NotifyInjectFirst(_, _, _, _, _, _)
NotifyInjectFirst(h, cl, e, dumpOK, resp, i) ==
    LET h2 == InjectHost(h, cl, e) IN
    IF i > Len(cl.NotifyReleaseStages)
    THEN Outcome(h2, Nil, <<>>)
    ELSE IF cl.NotifyReleaseStages[i] = h.events[e].ReleaseStage
    THEN LET s == send(h2, cl, e, dumpOK, resp)
         IN  Outcome(h2, s.ret, s.posts)
    ELSE NotifyInjectFirst(h2, cl, e, dumpOK, resp, i + 1)

RECURSIVE NotifyFrom(_, _, _, _, _, _)
\* The loop of Client.Notify from index i of NotifyReleaseStages on.
NotifyFrom(h, cl, e, dumpOK, resp, i) ==
    IF i > Len(cl.NotifyReleaseStages)
    THEN Outcome(h, Nil, <<>>)
    ELSE IF cl.NotifyReleaseStages[i] = h.events[e].ReleaseStage
    THEN LET h2 == InjectHost(h, cl, e)
             s  == send(h2, cl, e, dumpOK, resp)
         IN  Outcome(h2, s.ret, s.posts)
    ELSE NotifyFrom(h, cl, e, dumpOK, resp, i + 1)

ClientNotify(h, cl, e, dumpOK, resp) == NotifyFrom(h, cl, e, dumpOK, resp, 1)

(* ======================= state and operations ======================= *)

Errs == {[class |-> "*errors.errorString", msg |-> "boom"]}

NoReport == [made |-> FALSE, event |-> NoEvent, dump |-> Absent]
Report(h, e) ==
    [made |-> TRUE, event |-> h.events[e], dump |-> TabContent(h, e, "request")["dump"]]

Call(op, c, e, ret, posts, report) ==
    [op |-> op, client |-> c, event |-> e, ret |-> ret, posts |-> posts,
     report |-> report]

(* ---- panic values ---- *)
NoPanic  == [kind |-> "none", class |-> "", text |-> ""]
NilPanic == [kind |-> "nil", class |-> "", text |-> ""]
PanicNilError ==
    [kind |-> "error", class |-> "*runtime.PanicNilError",
     text |-> "panic called with nil argument"]
PanicVals ==
    {[kind |-> "error", class |-> "*main.MyErr", text |-> "bad"],
     [kind |-> "string", class |-> "string", text |-> "This should be reported!"],
     [kind |-> "other", class |-> "int", text |-> "42"],
     NilPanic}

Goroutine(pc, raised, v) == [pc |-> pc, raised |-> raised, v |-> v]

TheHeap == Heap(events, maps, written)

\* The Scratch Event of a helper is garbage when the helper returns.
Store(h) ==
    /\ events'  = [h.events EXCEPT ![Scratch] = NoEvent]
    /\ maps'    = [id \in MapIds |->
                     IF id[1] = Scratch THEN EmptyMap ELSE h.maps[id]]
    /\ written' = [h.written EXCEPT ![Scratch] = [t \in Tabs |-> EmptyMap]]

CallerMapInits ==
    {[EmptyMap EXCEPT !["id"] = "a"],
     [EmptyMap EXCEPT !["id"] = "a", !["name"] = "b"]}

\* The state after package initialisation: the default Client with the API
\* key of the environment and the host name of the machine, a second Client
\* the caller built for the staging stage, and the caller's map m1.
InitState(key, host, key2, m) ==
    /\ clients = [c \in ClientIds |->
                    IF c = "DefaultClient"
                    THEN DefaultClientInit(key, host)
                    ELSE [DefaultClientInit(key2, "") EXCEPT
                            !.ReleaseStage = "staging",
                            !.NotifyReleaseStages = <<"staging">>]]
    /\ TraceFilterFunc = NilFunc
    /\ events = [e \in AllEventIds |-> NoEvent]
    /\ maps = [id \in MapIds |-> IF id \in CallerMaps THEN m ELSE EmptyMap]
    /\ written = [e \in AllEventIds |-> [t \in Tabs |-> EmptyMap]]
    /\ call = Call("init", "DefaultClient", Scratch, Nil, <<>>, NoReport)
    /\ unwinding = Goroutine("idle", NoPanic, NoPanic)

Init ==
    \E key \in APIKeys, host \in Hostnames :
        InitState(key, host, "K", [EmptyMap EXCEPT !["id"] = "a"])

(* ---- configuration ---- *)
Configure(op, c, cl) ==
    /\ clients' = [clients EXCEPT ![c] = cl]
    /\ call' = Call(op, c, Scratch, Nil, <<>>, NoReport)
    /\ UNCHANGED <<TraceFilterFunc, events, maps, written, unwinding>>

SetAPIKeyOfDefault(c, key) ==
    /\ clients' = [clients EXCEPT !["DefaultClient"].APIKey = key]
    /\ call' = Call("SetAPIKey", c, Scratch, Nil, <<>>, NoReport)
    /\ UNCHANGED <<TraceFilterFunc, events, maps, written, unwinding>>

\* SetAPIKey for the default Client; an assignment to the field for another.
SetAPIKey(c, key) ==
    Configure("SetAPIKey", c, [clients[c] EXCEPT !.APIKey = key])

SetReleaseStage(c, stage) ==
    Configure("SetReleaseStage", c, [clients[c] EXCEPT !.ReleaseStage = stage])

SetNotifyReleaseStages(c, stages) ==
    Configure("SetNotifyReleaseStages", c,
              [clients[c] EXCEPT !.NotifyReleaseStages = stages])

SetHostname(c, host) ==
    Configure("SetHostname", c, [clients[c] EXCEPT !.Hostname = host])

SetTraceFilterFunc(hook) ==
    /\ TraceFilterFunc' = hook
    /\ call' = Call("SetTraceFilterFunc", "DefaultClient", Scratch, Nil, <<>>, NoReport)
    /\ UNCHANGED <<clients, events, maps, written, unwinding>>

(* ---- Event construction and enrichment ---- *)
\* The frames above the caller: Client.New called directly, or through the
\* package function New (default Client only).
NewStack(viaFunc, user) ==
    IF viaFunc THEN <<FrStacktrace, FrClientNew, FrNew>> \o user
    ELSE <<FrStacktrace, FrClientNew>> \o user

New(c, e, err, user, viaFunc) ==
    /\ ~events[e].live
    /\ viaFunc => c = "DefaultClient"
    /\ Store(ClientNew(TheHeap, e, clients[c], err,
                       NewStack(viaFunc, user), TraceFilterFunc))
    /\ call' = Call("New", c, e, Nil, <<>>, NoReport)
    /\ UNCHANGED <<clients, TraceFilterFunc, unwinding>>

EventWithContext(e, context) ==
    /\ events[e].live
    /\ Store(WithContext(TheHeap, e, context))
    /\ call' = Call("WithContext", "DefaultClient", e, Nil, <<>>, NoReport)
    /\ UNCHANGED <<clients, TraceFilterFunc, unwinding>>

EventWithMetaDataValues(e, tab, values) ==
    /\ events[e].live
    /\ Store(WithMetaDataValues(TheHeap, e, tab, values))
    /\ call' = Call("WithMetaDataValues", "DefaultClient", e, Nil, <<>>, NoReport)
    /\ UNCHANGED <<clients, TraceFilterFunc, unwinding>>

EventWithMetaData(e, tab, name, value) ==
    /\ events[e].live
    /\ Store(WithMetaData(TheHeap, e, tab, name, value))
    /\ call' = Call("WithMetaData", "DefaultClient", e, Nil, <<>>, NoReport)
    /\ UNCHANGED <<clients, TraceFilterFunc, unwinding>>

(* ---- Notify ---- *)
Notify(c, e, dumpOK, resp) ==
    /\ events[e].live
    /\ LET out == ClientNotify(TheHeap, clients[c], e, dumpOK, resp)
       IN  /\ Store(out.h)
           /\ call' = Call("Notify", c, e, out.ret, out.posts, NoReport)
    /\ UNCHANGED <<clients, TraceFilterFunc, unwinding>>

\* NotifyError: DefaultClient.Notify(DefaultClient.New(err)).
NotifyError(err, user, dumpOK, resp) ==
    /\ LET cl  == clients["DefaultClient"]
           h1  == ClientNew(TheHeap, Scratch, cl, err,
                            <<FrStacktrace, FrClientNew, FrNotifyError>> \o user,
                            TraceFilterFunc)
           out == ClientNotify(h1, cl, Scratch, dumpOK, resp)
       IN  /\ Store(out.h)
           /\ call' = Call("NotifyError", "DefaultClient", Scratch, out.ret,
                           out.posts, Report(out.h, Scratch))
    /\ UNCHANGED <<clients, TraceFilterFunc, unwinding>>

(* ---- CapturePanic ---- *)
\* A nil interface value: what recover returns when nothing is recovered.
IsNil(v) == v.kind \in {"none", "nil"}

\* recover() called directly by the deferred CapturePanic: the value the
\* goroutine is panicking with (panicking stops), nil when it is not panicking.
Recover(g) == IF g.pc = "panicking" THEN g.v ELSE NoPanic

\* NotifyRequestError: New, WithContext, WithMetaData("request", "dump", r),
\* Notify, all on the default Client.
NotifyRequestError(h, cl, err, stack, hook, dumpOK, resp) ==
    LET h1 == ClientNew(h, Scratch, cl, err, stack, hook)
        h2 == WithContext(h1, Scratch, RequestURL)
        h3 == WithMetaData(h2, Scratch, "request", "dump", RequestDump)
        out == ClientNotify(h3, cl, Scratch, dumpOK, resp)
    IN  [h |-> out.h, ret |-> out.ret, posts |-> out.posts,
         report |-> Report(out.h, Scratch)]

NotReported(h) == [h |-> h, ret |-> Nil, posts |-> <<>>, report |-> NoReport]

\* The frames runtime.Caller sees when CapturePanic reports a panic.
PanicStack(user) ==
    <<FrStacktrace, FrClientNew, FrNotifyRequestError, FrCapturePanic, FrRtPanic>>
        \o user

\* A scope that defers CapturePanic(r) panics with v. panicnil is the
\* GODEBUG/language-version setting of the build: with it off (go >= 1.21)
\* the runtime turns panic(nil) into a *runtime.PanicNilError.
Panic(v, panicnil) ==
    /\ unwinding.pc = "idle"
    /\ LET raised == IF v = NilPanic /\ ~panicnil THEN PanicNilError ELSE v
       IN  unwinding' = Goroutine("panicking", raised, raised)
    /\ call' = Call("panic", "DefaultClient", Scratch, Nil, <<>>, NoReport)
    /\ UNCHANGED <<clients, TraceFilterFunc, events, maps, written>>

\* The scope returns without a failure; its deferred calls run.
ReturnNormally ==
    /\ unwinding.pc = "idle"
    /\ unwinding' = Goroutine("returning", NoPanic, NoPanic)
    /\ call' = Call("return", "DefaultClient", Scratch, Nil, <<>>, NoReport)
    /\ UNCHANGED <<clients, TraceFilterFunc, events, maps, written>>

CapturePanic(user, dumpOK, resp) ==
    /\ unwinding.pc \in {"panicking", "returning"}
    /\ LET recovered == Recover(unwinding)
           cl  == clients["DefaultClient"]
           out == IF IsNil(recovered) THEN NotReported(TheHeap)
                  ELSE IF recovered.kind = "error"
                  THEN NotifyRequestError(TheHeap, cl,
                          [class |-> recovered.class, msg |-> recovered.text],
                          PanicStack(user), TraceFilterFunc, dumpOK, resp)
                  ELSE IF recovered.kind = "string"
                  THEN NotifyRequestError(TheHeap, cl,
                          [class |-> "*errors.errorString", msg |-> recovered.text],
                          PanicStack(user), TraceFilterFunc, dumpOK, resp)
                  ELSE NotReported(TheHeap)
       IN  /\ Store(out.h)
           /\ call' = Call("CapturePanic", "DefaultClient", Scratch, out.ret,
                           out.posts, out.report)
           /\ unwinding' =
                IF IsNil(recovered)
                THEN Goroutine("returned", unwinding.raised, NoPanic)
                ELSE Goroutine("propagating", unwinding.raised, recovered)
    /\ UNCHANGED <<clients, TraceFilterFunc>>

\* The caller's frames finish: an outer recover takes the value, or the
\* scope has returned; the goroutine goes on to its next request.
Resume ==
    /\ unwinding.pc \in {"propagating", "returned"}
    /\ unwinding' = Goroutine("idle", NoPanic, NoPanic)
    /\ call' = Call("resume", "DefaultClient", Scratch, Nil, <<>>, NoReport)
    /\ UNCHANGED <<clients, TraceFilterFunc, events, maps, written>>

(* ======================= specifications ======================= *)

\* Notify and send on the default Client, under every configuration, for
\* one Event at a time.
Next ==
    \/ \E key \in APIKeys : SetAPIKey("DefaultClient", key)
    \/ \E stage \in Stages : SetReleaseStage("DefaultClient", stage)
    \/ \E stages \in StageLists : SetNotifyReleaseStages("DefaultClient", stages)
    \/ \E host \in Hostnames : SetHostname("DefaultClient", host)
    \/ \E err \in Errs : New("DefaultClient", 1, err, <<FrMain>>, TRUE)
    \/ \E value \in {"a", ChanValue} : EventWithMetaData(1, "user_info", "id", value)
    \/ \E resp \in Responses : Notify("DefaultClient", 1, TRUE, resp)
    \/ \E err \in Errs, resp \in Responses : NotifyError(err, <<FrMain>>, TRUE, resp)

Spec == Init /\ [][Next]_vars

\* A goroutine that serves requests under "defer CapturePanic(r)", with the
\* default Client reconfigured between requests.
NextPanic ==
    \/ \E key \in APIKeys : SetAPIKey("DefaultClient", key)
    \/ \E stage \in Stages : SetReleaseStage("DefaultClient", stage)
    \/ \E v \in PanicVals, panicnil \in BOOLEAN : Panic(v, panicnil)
    \/ ReturnNormally
    \/ \E user \in UserStacks, dumpOK \in BOOLEAN, resp \in Responses :
            CapturePanic(user, dumpOK, resp)
    \/ Resume

SpecPanic == Init /\ [][NextPanic]_vars

\* Enrichment of one Event: whole-tab sets with nil or with the caller's
\* map m1, and single-key sets, on two tabs.
MetaTabs == {"user_info", "host"}
MetaKeys == {"name", "id"}
MetaVals == {"a", "b"}

InitMeta ==
    \E m \in CallerMapInits : InitState("K", "web1", "K", m)

NextMeta ==
    \/ \E err \in Errs : New("DefaultClient", 1, err, <<FrMain>>, TRUE)
    \/ \E tab \in MetaTabs, values \in CallerMaps \cup {NilMap} :
            EventWithMetaDataValues(1, tab, values)
    \/ \E tab \in MetaTabs, name \in MetaKeys, value \in MetaVals :
            EventWithMetaData(1, tab, name, value)
    \/ EventWithContext(1, RequestURL)

SpecMeta == InitMeta /\ [][NextMeta]_vars

\* Event construction from every call stack, with and without a hook.
NextTrace ==
    \/ \E hook \in Hooks \cup {NilFunc} : SetTraceFilterFunc(hook)
    \/ \E e \in EventIds, err \in Errs, user \in UserStacks, viaFunc \in BOOLEAN :
            New("DefaultClient", e, err, user, viaFunc)

SpecTrace == Init /\ [][NextTrace]_vars

\* Two Clients side by side, and the package-level hook.
NextClients ==
    \/ \E c \in ClientIds, key \in APIKeys : SetAPIKey(c, key)
    \/ \E c \in ClientIds, stage \in Stages : SetReleaseStage(c, stage)
    \/ \E hook \in {NilFunc, "prefixFile"} : SetTraceFilterFunc(hook)
    \/ \E c \in ClientIds, err \in Errs :
            New(c, 1, err, <<FrMain, FrMain>>, FALSE)
    \/ \E c \in ClientIds, resp \in {r \in Responses : r.status \in {200, 500}} :
            Notify(c, 1, TRUE, resp)

InitClients == InitState("K", "web1", "", [EmptyMap EXCEPT !["id"] = "a"])

SpecClients == InitClients /\ [][NextClients]_vars

\* Two Events of the default Client given the caller's map m1, enriched
\* key by key and notified.
InitShared ==
    \E m \in CallerMapInits : InitState("K", "web1", "K", m)

NextShared ==
    \/ \E e \in EventIds, err \in {[class |-> "*errors.errorString", msg |-> "boom"]} :
            New("DefaultClient", e, err, <<FrMain>>, TRUE)
    \/ \E e \in EventIds, tab \in MetaTabs, values \in CallerMaps \cup {NilMap} :
            EventWithMetaDataValues(e, tab, values)
    \/ \E e \in EventIds, tab \in MetaTabs, value \in MetaVals :
            EventWithMetaData(e, tab, "name", value)
    \/ \E e \in EventIds : Notify("DefaultClient", e, TRUE, [err |-> FALSE, status |-> 200])

SpecShared == InitShared /\ [][NextShared]_vars

(* ======================= claims ======================= *)

NotifyOps == {"Notify", "NotifyError"}

\* The Event the last Notify was given, and the Client it went through.
NotifiedEvent  == IF call.op = "Notify" THEN events[call.event] ELSE call.report.event
NotifiedClient == clients[call.client]
NotifiedMeta   == IF call.op = "Notify"
                  THEN {TabContent(TheHeap, call.event, t)[k] : t \in Tabs, k \in Keys}
                  ELSE {}
StageListed ==
    NotifiedEvent.ReleaseStage \in Range(NotifiedClient.NotifyReleaseStages)

\* C1: a Notify on an Event whose release stage is not in the Client's
\* notify-stage list issues no POST and returns nil, whatever the API key,
\* the host name and the metadata are.
C1_SuppressedIsSilentSuccess ==
    (call.op \in NotifyOps /\ ~StageListed)
        => (call.posts = <<>> /\ call.ret = Nil)

C1_Witness ==
    /\ call.op = "Notify" /\ ~StageListed
    /\ NotifiedClient.APIKey = "" /\ NotifiedClient.Hostname # ""
    /\ ChanValue \in NotifiedMeta
    /\ call.ret = Nil

\* C2: when Notify issued the POST, it returns nil exactly when a response
\* came back with status 200; any other status and any transport error give
\* a non-nil error.
C2_NilIffStatus200 ==
    (call.op \in NotifyOps /\ call.posts # <<>>)
        => LET resp == call.posts[1].resp
           IN  /\ (call.ret = Nil) <=> (~resp.err /\ resp.status = 200)
               /\ resp.err => call.ret = TransportError
               /\ (~resp.err /\ resp.status # 200)
                     => call.ret = StatusError(resp.status)

C2_Witness ==
    /\ call.op = "Notify" /\ call.posts # <<>>
    /\ ~call.posts[1].resp.err /\ call.posts[1].resp.status = 204
    /\ call.ret = StatusError(204)

\* C3: a Notify through a Client with an empty API key, for an Event whose
\* release stage is listed, returns the configuration error and issues no
\* POST, whatever the metadata holds (the key is checked before encoding).
C3_EmptyKeyIsConfigError ==
    (call.op \in NotifyOps /\ StageListed /\ NotifiedClient.APIKey = "")
        => (call.ret = NoApiKeyError /\ call.posts = <<>>)

C3_Witness ==
    /\ call.op = "Notify" /\ StageListed /\ NotifiedClient.APIKey = ""
    /\ ChanValue \in NotifiedMeta
    /\ call.ret = NoApiKeyError /\ call.posts = <<>>

\* C4: one Notify issues at most one POST: none after a failure, and one
\* even when the release stage is listed more than once.
C4_AtMostOnePost ==
    call.op \in NotifyOps => Len(call.posts) <= 1

C4_Witness ==
    /\ call.op = "Notify"
    /\ Cardinality({i \in DOMAIN NotifiedClient.NotifyReleaseStages :
            NotifiedClient.NotifyReleaseStages[i] = NotifiedEvent.ReleaseStage}) >= 2
    /\ Len(call.posts) = 1
    /\ call.ret # Nil

\* C8: a Notify whose Event's release stage is not listed changes neither
\* the Event (its metadata included: no host/name entry) nor any Client.
C8_SuppressedNotifyChangesNothing ==
    [][(/\ call'.op = "Notify"
        /\ events[call'.event].live
        /\ events[call'.event].ReleaseStage \notin
                Range(clients[call'.client].NotifyReleaseStages))
       => (events' = events /\ maps' = maps /\ clients' = clients)]_vars

C8_Witness ==
    /\ call.op = "Notify" /\ ~StageListed
    /\ NotifiedClient.Hostname # ""
    /\ TabContent(TheHeap, call.event, "host")["name"] = Absent
    /\ NotifiedClient.APIKey # ""

\* C5: CapturePanic never swallows a failure: run as a deferred call while
\* the scope unwinds with value v, it leaves the scope unwinding with the same
\* v, whatever became of the report; with no failure in flight it does nothing.
C5_NeverSwallows ==
    call.op = "CapturePanic"
        => IF unwinding.raised = NoPanic
           THEN unwinding.pc = "returned" /\ call.posts = <<>> /\ ~call.report.made
           ELSE unwinding.pc = "propagating" /\ unwinding.v = unwinding.raised

\* C5, the part the code keeps: a failure whose value is not nil is re-raised
\* with the same value, whether the report succeeded, failed or was suppressed.
C5_NonNilReRaised ==
    (call.op = "CapturePanic" /\ ~IsNil(unwinding.raised))
        => (unwinding.pc = "propagating" /\ unwinding.v = unwinding.raised)

\* C6: every failure value CapturePanic intercepts (an error, a string, a
\* value of any other type) is reported through NotifyRequestError before it
\* is re-raised: an error as it is, any other value as an error wrapping its
\* string form.
C6_EveryFailureReported ==
    (call.op = "CapturePanic" /\ ~IsNil(unwinding.raised))
        => /\ call.report.made
           /\ call.report.event.Context = RequestURL
           /\ call.report.dump = RequestDump
           /\ call.report.event.Message = unwinding.raised.text
           /\ call.report.event.ErrorClass =
                IF unwinding.raised.kind = "error"
                THEN unwinding.raised.class
                ELSE "*errors.errorString"

\* C6, the part the code keeps: errors and strings are reported so.
C6_ErrorsAndStringsReported ==
    (call.op = "CapturePanic" /\ unwinding.raised.kind \in {"error", "string"})
        => /\ call.report.made
           /\ call.report.event.Context = RequestURL
           /\ call.report.dump = RequestDump
           /\ call.report.event.Message = unwinding.raised.text
           /\ call.report.event.ErrorClass =
                IF unwinding.raised.kind = "error"
                THEN unwinding.raised.class
                ELSE "*errors.errorString"

\* C7: after any sequence of whole-tab and single-key sets on an Event, each
\* tab holds the mapping of the last whole-tab set on it (empty if none)
\* overridden by the single-key sets made on it since.
C7_TabIsLastWholeSetPlusLaterKeys ==
    \A e \in EventIds, t \in Tabs :
        events[e].live => TabContent(TheHeap, e, t) = written[e][t]

LastIndex(name, tok) ==
    IF \E i \in 1..Len(name) : name[i] = tok
    THEN CHOOSE i \in 1..Len(name) :
            name[i] = tok /\ \A j \in (i + 1)..Len(name) : name[j] # tok
    ELSE 0

\* The function name of a qualified name without its package path: what
\* follows the first dot after the last slash.
UnqualifiedName(name) ==
    LET base == SubSeq(name, LastIndex(name, slash) + 1, Len(name))
    IN  IF LastIndex(name, slash) > 0 /\ Index(base, dot) > 0
        THEN SubSeq(base, Index(base, dot) + 1, Len(base))
        ELSE base

\* C9: the stack trace New stores in an Event has no frame whose unqualified
\* function name is "panic", for every call stack and every hook setting.
C9_NoPanicFrame ==
    \A e \in EventIds :
        events[e].live =>
            \A i \in DOMAIN events[e].Stacktrace :
                UnqualifiedName(events[e].Stacktrace[i].Method) # <<"panic">>

ClientOps == {"SetAPIKey", "SetReleaseStage", "SetNotifyReleaseStages",
              "SetHostname", "New", "Notify"}

\* What Client c builds and sends from here on: the Event New makes for a
\* call stack, and the POST Notify issues for it (a one-element set, so
\* that the built heap is bound as a value).
Behaviour(c) ==
    {[built |-> h1.events[Scratch],
      posts |-> ClientNotify(h1, clients[c], Scratch, TRUE,
                             [err |-> FALSE, status |-> 200]).posts] :
        h1 \in {ClientNew(TheHeap, Scratch, clients[c],
                          [class |-> "*errors.errorString", msg |-> "boom"],
                          NewStack(TRUE, <<FrMain>>), TraceFilterFunc)}}

\* C10 as stated: Clients share no mutable state, so no step other than an
\* operation through Client c changes c's configuration or what c builds
\* and sends afterwards.
C10_NoSharedMutableState ==
    [][\A c \in ClientIds :
          (call'.client # c \/ call'.op \notin ClientOps)
              => (clients'[c] = clients[c] /\ Behaviour(c)' = Behaviour(c))]_vars

\* C10 amended: a configuration change, New or Notify through one Client
\* leaves every other Client's configuration, and what that Client builds
\* and sends afterwards, unchanged; the package-level TraceFilterFunc is the
\* state they share.
C10_ClientOpsLeaveOthersAlone ==
    [][\A c \in ClientIds :
          (call'.client # c /\ call'.op \in ClientOps)
              => (clients'[c] = clients[c] /\ Behaviour(c)' = Behaviour(c))]_vars

C10_Witness ==
    /\ call.op = "SetAPIKey" /\ call.client = "c2"
    /\ clients["c2"].APIKey = "" /\ clients["DefaultClient"].APIKey = "K"
    /\ TraceFilterFunc # NilFunc
    /\ events[1].live

\* The metadata of an Event as a reader sees it: the content of every tab.
MetaDataOf(e) == [t \in Tabs |-> TabContent(TheHeap, e, t)]

\* C11: once the same caller's map m was given to WithMetaDataValues for a
\* tab on two Events, a WithMetaData on one of them (the host-name injection
\* of Notify included) changes neither the metadata of the other Event nor
\* the caller's map m.
C11_EventsIsolated ==
    [][\A m \in CallerMaps, t \in Tabs, e1 \in EventIds, e2 \in EventIds :
          (/\ e1 # e2
           /\ events[e1].live /\ events[e2].live
           /\ events[e1].MetaData[t] = m /\ events[e2].MetaData[t] = m
           /\ call'.op \in {"WithMetaData", "Notify"}
           /\ call'.event = e1)
              => (MetaDataOf(e2)' = MetaDataOf(e2) /\ maps'[m] = maps[m])]_vars

\* C11, the part the code keeps: a WithMetaData or Notify on an Event none
\* of whose tabs refers to a caller's map leaves every other Event's
\* metadata and every caller's map as they were.
C11_OwnMapsIsolated ==
    [][\A e1 \in EventIds, e2 \in EventIds :
          (/\ e1 # e2
           /\ events[e1].live /\ events[e2].live
           /\ \A t \in Tabs : events[e1].MetaData[t] \notin CallerMaps
           /\ call'.op \in {"WithMetaData", "Notify"}
           /\ call'.event = e1)
              => (/\ MetaDataOf(e2)' = MetaDataOf(e2)
                  /\ \A m \in CallerMaps : maps'[m] = maps[m])]_vars

====
